---- MODULE Spec2Model ----
(***************************************************************************)
(* Model of the debounced push-button of the panel firmware:               *)
(*   src/src/button.rs   Debouncer (leaky integrator) and Button (3-state  *)
(*                       press / long-press machine)                       *)
(*   src/src/main.rs     the construction of both and the polling loop     *)
(* One step of the model is one call of Button::poll, with the raw pin     *)
(* level it samples and the number of timer cycles that went by since the  *)
(* previous call as its inputs.                                            *)
(***************************************************************************)
EXTENDS Integers, Sequences, FiniteSets, TLC

\* ------------------------------------------------------------------------
\* Bounds of the model
\* ------------------------------------------------------------------------
\* Width of the free-running cycle counter (u32 in the firmware).
TickBits == 3
\* Largest number of counter ticks between two consecutive polls.
MaxDt == 3
\* Number of polls after construction whose raw samples are recorded.
HistLen == 6

\* ------------------------------------------------------------------------
\* Program constants
\* ------------------------------------------------------------------------
\* integrator and max are u8.
U8Max == 255
\* Milliseconds per second, the divisor of both conversions.
MsPerSecond == 1000

TickModulus == 2 ^ TickBits

Levels == {"low", "high"}
Active == {"Low", "High"}
Events == {"None", "Pressed", "ShortRelease", "LongPress", "LongRelease"}

\* (debounce_time_ms, sample_frequency) pairs given to Debouncer::new.
\* For each of them the f32 product is exact, so the cast truncates the
\* exact quotient.
DebounceConfigs == {<<0, 100>>, <<5, 100>>, <<10, 100>>, <<20, 100>>, <<30, 100>>}

\* (long_press_timeout_ms, timer frequency in Hz) pairs given to Button::new,
\* with the same exactness.
TimeoutConfigs == {<<0, 1000>>, <<1, 1000>>, <<2, 1000>>, <<3, 2000>>}

\* The configurations explored: every combination of the above for either
\* polarity, and one whose debounce window (1000 ms at 300 Hz = 300 samples)
\* exceeds the u8 range.
Configs ==
    (Active \X DebounceConfigs \X TimeoutConfigs)
        \cup (Active \X {<<1000, 300>>} \X {<<2, 1000>>})

\* ------------------------------------------------------------------------
\* Debouncer (src/src/button.rs)
\* ------------------------------------------------------------------------
\* `(x as f32 / 1000.0 * y as f32) as u8`: truncation toward zero,
\* saturating at the largest u8.
DebouncerMax(debounce_time_ms, sample_frequency) ==
    LET q == (debounce_time_ms * sample_frequency) \div MsPerSecond
    IN  IF q > U8Max THEN U8Max ELSE q

\* Debouncer::new with the integrator starting at 0 for either polarity.
Debouncer_new_zero_integrator(active_mode, debounce_time_ms, sample_frequency) ==
    LET m == DebouncerMax(debounce_time_ms, sample_frequency)
    IN  [ integrator  |-> 0,
          max         |-> m,
          output      |-> (active_mode = "Low"),
          active_mode |-> active_mode ]

Debouncer_new(active_mode, debounce_time_ms, sample_frequency) ==
    LET m == DebouncerMax(debounce_time_ms, sample_frequency)
    IN  [ integrator  |-> IF active_mode = "Low" THEN m ELSE 0,
          max         |-> m,
          output      |-> (active_mode = "Low"),
          active_mode |-> active_mode ]

\* u8::saturating_sub(1)
SaturatingSub1(x) == IF x = 0 THEN 0 ELSE x - 1

\* Debouncer::poll without the `integrator < max` guard of the increment.
Debouncer_poll_unguarded_increment(d, is_low) ==
    LET i == IF is_low
             THEN SaturatingSub1(d.integrator)
             ELSE (d.integrator + 1) % (U8Max + 1)
        o == IF i = 0 THEN FALSE
             ELSE IF i >= d.max THEN TRUE
             ELSE d.output
    IN  [d EXCEPT !.integrator = i, !.output = o]

\* Debouncer::poll with a wrapping u8 decrement in place of saturating_sub.
Debouncer_poll_wrapping_decrement(d, is_low) ==
    LET i == IF is_low
             THEN (d.integrator + U8Max) % (U8Max + 1)
             ELSE IF d.integrator < d.max
                  THEN (d.integrator + 1) % (U8Max + 1)
                  ELSE d.integrator
        o == IF i = 0 THEN FALSE
             ELSE IF i >= d.max THEN TRUE
             ELSE d.output
    IN  [d EXCEPT !.integrator = i, !.output = o]

\* Debouncer::poll raising output one sample early (`integrator + 1 >= max`).
Debouncer_poll_early_output(d, is_low) ==
    LET i == IF is_low
             THEN SaturatingSub1(d.integrator)
             ELSE IF d.integrator < d.max
                  THEN (d.integrator + 1) % (U8Max + 1)
                  ELSE d.integrator
        o == IF i = 0 THEN FALSE
             ELSE IF i + 1 >= d.max THEN TRUE
             ELSE d.output
    IN  [d EXCEPT !.integrator = i, !.output = o]

\* Debouncer::poll stepping the integrator by 2 on a high sample.
Debouncer_poll_double_increment(d, is_low) ==
    LET i == IF is_low
             THEN SaturatingSub1(d.integrator)
             ELSE IF d.integrator < d.max
                  THEN (d.integrator + 2) % (U8Max + 1)
                  ELSE d.integrator
        o == IF i = 0 THEN FALSE
             ELSE IF i >= d.max THEN TRUE
             ELSE d.output
    IN  [d EXCEPT !.integrator = i, !.output = o]

Debouncer_poll(d, is_low) ==
    LET i == IF is_low
             THEN SaturatingSub1(d.integrator)
             ELSE IF d.integrator < d.max
                  THEN (d.integrator + 1) % (U8Max + 1)
                  ELSE d.integrator
        o == IF i = 0 THEN FALSE
             ELSE IF i >= d.max THEN TRUE
             ELSE d.output
    IN  [d EXCEPT !.integrator = i, !.output = o]

\* Debouncer::is_pressed without the match on active_mode.
Debouncer_is_pressed_ignores_mode(d) == d.output = TRUE

Debouncer_is_pressed(d) ==
    \/ d.active_mode = "High" /\ d.output = TRUE
    \/ d.active_mode = "Low" /\ d.output = FALSE

\* ------------------------------------------------------------------------
\* Timer (MonoTimer / Instant of the HAL)
\* ------------------------------------------------------------------------
\* Instant::elapsed: the counter read now, minus the instant, modulo the
\* counter's width.
elapsed(press_start, now) == (now - press_start + TickModulus) % TickModulus

\* ------------------------------------------------------------------------
\* Button (src/src/button.rs)
\* ------------------------------------------------------------------------
Released == [tag |-> "Released", press_start |-> 0]
Pressed(t) == [tag |-> "Pressed", press_start |-> t]
LongPressed == [tag |-> "LongPressed", press_start |-> 0]

\* `(frequency as f32 * (ms as f32 / 1000.0)) as u32`, the counter's width
\* being TickBits here.
LongPressTimeoutTicks(long_press_timeout_ms, frequency) ==
    LET q == (frequency * long_press_timeout_ms) \div MsPerSecond
    IN  IF q > TickModulus - 1 THEN TickModulus - 1 ELSE q

\* Button::poll with `>=` in the timeout comparison.
Button_poll_non_strict(state, timeout_ticks, pressed, now) ==
    CASE state.tag = "Released" ->
            IF pressed
            THEN [button_state |-> Pressed(now), event |-> "Pressed"]
            ELSE [button_state |-> state, event |-> "None"]
      [] state.tag = "Pressed" ->
            IF ~pressed
            THEN [button_state |-> Released, event |-> "ShortRelease"]
            ELSE IF elapsed(state.press_start, now) >= timeout_ticks
            THEN [button_state |-> LongPressed, event |-> "LongPress"]
            ELSE [button_state |-> state, event |-> "None"]
      [] state.tag = "LongPressed" ->
            IF ~pressed
            THEN [button_state |-> Released, event |-> "LongRelease"]
            ELSE [button_state |-> state, event |-> "None"]

\* Button::poll testing the timeout before the release.
Button_poll_timeout_first(state, timeout_ticks, pressed, now) ==
    CASE state.tag = "Released" ->
            IF pressed
            THEN [button_state |-> Pressed(now), event |-> "Pressed"]
            ELSE [button_state |-> state, event |-> "None"]
      [] state.tag = "Pressed" ->
            IF elapsed(state.press_start, now) > timeout_ticks
            THEN [button_state |-> LongPressed, event |-> "LongPress"]
            ELSE IF ~pressed
            THEN [button_state |-> Released, event |-> "ShortRelease"]
            ELSE [button_state |-> state, event |-> "None"]
      [] state.tag = "LongPressed" ->
            IF ~pressed
            THEN [button_state |-> Released, event |-> "LongRelease"]
            ELSE [button_state |-> state, event |-> "None"]

\* Button::poll returning LongPress without moving to LongPressed.
Button_poll_no_long_pressed(state, timeout_ticks, pressed, now) ==
    CASE state.tag = "Released" ->
            IF pressed
            THEN [button_state |-> Pressed(now), event |-> "Pressed"]
            ELSE [button_state |-> state, event |-> "None"]
      [] state.tag = "Pressed" ->
            IF ~pressed
            THEN [button_state |-> Released, event |-> "ShortRelease"]
            ELSE IF elapsed(state.press_start, now) > timeout_ticks
            THEN [button_state |-> state, event |-> "LongPress"]
            ELSE [button_state |-> state, event |-> "None"]
      [] state.tag = "LongPressed" ->
            IF ~pressed
            THEN [button_state |-> Released, event |-> "LongRelease"]
            ELSE [button_state |-> state, event |-> "None"]

\* Button::poll subtracting the instants without wrapping (a counter value
\* below press_start counts as no time elapsed).
Button_poll_plain_subtraction(state, timeout_ticks, pressed, now) ==
    CASE state.tag = "Released" ->
            IF pressed
            THEN [button_state |-> Pressed(now), event |-> "Pressed"]
            ELSE [button_state |-> state, event |-> "None"]
      [] state.tag = "Pressed" ->
            IF ~pressed
            THEN [button_state |-> Released, event |-> "ShortRelease"]
            ELSE IF now - state.press_start > timeout_ticks
            THEN [button_state |-> LongPressed, event |-> "LongPress"]
            ELSE [button_state |-> state, event |-> "None"]
      [] state.tag = "LongPressed" ->
            IF ~pressed
            THEN [button_state |-> Released, event |-> "LongRelease"]
            ELSE [button_state |-> state, event |-> "None"]

\* The match of Button::poll, after self.pin.poll(): `pressed` is the fresh
\* self.pin.is_pressed(), `now` the counter value a read returns.
Button_poll(state, timeout_ticks, pressed, now) ==
    CASE state.tag = "Released" ->
            IF pressed
            THEN [button_state |-> Pressed(now), event |-> "Pressed"]
            ELSE [button_state |-> state, event |-> "None"]
      [] state.tag = "Pressed" ->
            IF ~pressed
            THEN [button_state |-> Released, event |-> "ShortRelease"]
            ELSE IF elapsed(state.press_start, now) > timeout_ticks
            THEN [button_state |-> LongPressed, event |-> "LongPress"]
            ELSE [button_state |-> state, event |-> "None"]
      [] state.tag = "LongPressed" ->
            IF ~pressed
            THEN [button_state |-> Released, event |-> "LongRelease"]
            ELSE [button_state |-> state, event |-> "None"]

\* ------------------------------------------------------------------------
\* debouncer.rs: the stand-alone debouncer
\* ------------------------------------------------------------------------
\* debouncer.rs Debouncer::new: the same arithmetic and the same fields as
\* the debouncer of button.rs.
DebouncerRs_new(active_mode, debounce_time_ms, sample_frequency) ==
    LET max == DebouncerMax(debounce_time_ms, sample_frequency)
    IN  [integrator  |-> IF active_mode = "Low" THEN max ELSE 0,
         max         |-> max,
         output      |-> (active_mode = "Low"),
         active_mode |-> active_mode]

\* Variants of Debouncer::update: the decrement without its guard, as a
\* wrapping u8 subtraction, and the clamp to one less than max.
Debouncer_update_unguarded_decrement(d, is_low) ==
    LET i == IF is_low
             THEN (d.integrator + U8Max) % (U8Max + 1)
             ELSE IF d.integrator < d.max THEN d.integrator + 1
             ELSE d.integrator
    IN  IF i = 0
        THEN [d EXCEPT !.integrator = i, !.output = FALSE]
        ELSE IF i >= d.max
        THEN [d EXCEPT !.integrator = d.max, !.output = TRUE]
        ELSE [d EXCEPT !.integrator = i]

\* debouncer.rs Debouncer::update: guarded decrement on a low sample,
\* increment below max otherwise, then the output thresholds with the
\* clamp of the integrator to max.
Debouncer_update(d, is_low) ==
    LET i == IF is_low
             THEN IF d.integrator > 0 THEN d.integrator - 1 ELSE d.integrator
             ELSE IF d.integrator < d.max THEN d.integrator + 1
             ELSE d.integrator
    IN  IF i = 0
        THEN [d EXCEPT !.integrator = i, !.output = FALSE]
        ELSE IF i >= d.max
        THEN [d EXCEPT !.integrator = d.max, !.output = TRUE]
        ELSE [d EXCEPT !.integrator = i]

\* debouncer.rs Debouncer::is_pressed.
DebouncerRs_is_pressed(d) ==
    \/ d.active_mode = "High" /\ d.output = TRUE
    \/ d.active_mode = "Low" /\ d.output = FALSE

\* ------------------------------------------------------------------------
\* main.rs: the loop around the button
\* ------------------------------------------------------------------------
\* The reports the loop hands to protocol.report.
Report_Press == [tag |-> "Press"]
Report_LongPress == [tag |-> "LongPress"]
Report_DialValue(d) == [tag |-> "DialValue", diff |-> d]

\* What counter.poll() can return: <<>> for None, <<d>> for Some(d).
CounterPolls == {<<>>, <<-1>>, <<1>>}

\* The configuration of main, with the 30 ms window and the 1000 ms timeout
\* at frequencies that keep the threshold and the timeout small.
MainConfigs ==
    {"Low"} \X {<<10, 100>>, <<30, 100>>} \X {<<1, 1000>>, <<2, 1000>>}

\* Variant of the match on the event: the Pressed arm left empty.
Dispatch_empty_pressed_arm(e) ==
    CASE e = "ShortRelease" -> [led |-> "high", reports |-> <<Report_Press>>]
      [] e = "LongPress"    -> [led |-> "high", reports |-> <<Report_LongPress>>]
      [] OTHER              -> [led |-> "none", reports |-> <<>>]

\* The match on encoder_button.poll(): the level written to the indicator
\* ("none" when the arm writes nothing) and the reports sent, in order.
Dispatch(e) ==
    CASE e = "Pressed"      -> [led |-> "low", reports |-> <<>>]
      [] e = "ShortRelease" -> [led |-> "high", reports |-> <<Report_Press>>]
      [] e = "LongPress"    -> [led |-> "high", reports |-> <<Report_LongPress>>]
      [] e = "LongRelease"  -> [led |-> "none", reports |-> <<>>]
      [] OTHER              -> [led |-> "none", reports |-> <<>>]

\* Variant of the dial report: forwarded whatever the button says.
DialReports_ungated(pressed, counter_poll) ==
    IF counter_poll # <<>>
    THEN <<Report_DialValue(counter_poll[1])>>
    ELSE <<>>

\* if let Some(diff) = counter.poll() { if !encoder_button.is_pressed() {..} }
DialReports(pressed, counter_poll) ==
    IF counter_poll # <<>> /\ ~pressed
    THEN <<Report_DialValue(counter_poll[1])>>
    ELSE <<>>

\* ------------------------------------------------------------------------
\* State
\* ------------------------------------------------------------------------
VARIABLES
    pin,                        \* Button.pin: the Debouncer record
    button_state,               \* Button.button_state
    long_press_timeout_ticks,   \* Button.long_press_timeout_ticks
    timer,                      \* the cycle counter, as last read or passed
    event,                      \* what the latest Button::poll returned
    raw,                        \* level of the latest raw sample, or "none"
    hist,                       \* the raw samples since construction
    polls,                      \* number of polls, saturating at HistLen + 1
    held,                       \* true ticks since the press began, capped
    long_presses,               \* LongPress events since the latest Pressed
    debouncer,                  \* a debouncer.rs Debouncer on the same pin
    led,                        \* level of the indicator pin
    led_write,                  \* level this iteration wrote to it, or "none"
    reports,                    \* reports this iteration sent, in order
    counter_poll,               \* what counter.poll() returned this iteration
    last_event,                 \* the latest event that was not None
    press_reports               \* button reports since the latest Pressed

buttonVars == <<pin, button_state, long_press_timeout_ticks, timer, event,
                raw, hist, polls, held, long_presses>>

mainVars == <<led, led_write, reports, counter_poll, last_event,
              press_reports>>

vars == <<buttonVars, debouncer, mainVars>>

Min(a, b) == IF a < b THEN a ELSE b

\* The state after the constructors, for configuration c: Debouncer::new(..),
\* Button::new(..); the cycle counter has been running since reset, so its
\* value t at the first poll is arbitrary. No iteration has run yet.
Construct(c, t) ==
    /\ pin = Debouncer_new(c[1], c[2][1], c[2][2])
    /\ button_state = Released
    /\ long_press_timeout_ticks = LongPressTimeoutTicks(c[3][1], c[3][2])
    /\ timer = t
    /\ event = "None"
    /\ raw = "none"
    /\ hist = <<>>
    /\ polls = 0
    /\ held = 0
    /\ long_presses = 0
    /\ debouncer = DebouncerRs_new(c[1], c[2][1], c[2][2])
    /\ led_write = "none"
    /\ reports = <<>>
    /\ counter_poll = <<>>
    /\ last_event = "None"
    /\ press_reports = 0

\* The button with any polarity, window and timeout; the indicator is not
\* driven.
Init ==
    \E c \in Configs, t \in 0 .. TickModulus - 1 :
        /\ Construct(c, t)
        /\ led = "low"

\* Button::poll with the pin at `level`, dt ticks after the previous poll.
\* pin, button_state and the returned event are the code's; raw, hist,
\* polls, held and long_presses only record what happened, for the
\* properties below.
Poll(level, dt) ==
    LET now == (timer + dt) % TickModulus
        p   == Debouncer_poll(pin, level = "low")
        r   == Button_poll(button_state, long_press_timeout_ticks,
                           Debouncer_is_pressed(p), now)
    IN  /\ pin' = p
        /\ button_state' = r.button_state
        /\ event' = r.event
        /\ timer' = now
        /\ raw' = level
        /\ polls' = Min(polls + 1, HistLen + 1)
        /\ hist' = IF polls < HistLen THEN Append(hist, level) ELSE <<>>
        /\ held' = IF button_state.tag = "Released"
                   THEN 0
                   ELSE Min(held + dt, TickModulus)
        /\ long_presses' = IF r.event = "Pressed" THEN 0
                           ELSE IF r.event = "LongPress"
                           THEN Min(long_presses + 1, 2)
                           ELSE long_presses
        /\ UNCHANGED long_press_timeout_ticks

Next ==
    \E level \in Levels, dt \in 1 .. MaxDt :
        Poll(level, dt) /\ UNCHANGED <<debouncer, mainVars>>

Spec == Init /\ [][Next]_vars

\* The two debouncers fed the same raw sample: Debouncer::poll of button.rs
\* on pin, Debouncer::update of debouncer.rs on debouncer.
Update(level) ==
    /\ pin' = Debouncer_poll(pin, level = "low")
    /\ debouncer' = Debouncer_update(debouncer, level = "low")
    /\ raw' = level
    /\ polls' = Min(polls + 1, HistLen + 1)
    /\ hist' = IF polls < HistLen THEN Append(hist, level) ELSE <<>>
    /\ UNCHANGED <<button_state, long_press_timeout_ticks, timer, event,
                   held, long_presses, mainVars>>

NextEquiv == \E level \in Levels : Update(level)

SpecEquiv == Init /\ [][NextEquiv]_vars

\* main as far as the button goes: the configuration of main; the indicator
\* pin has the level the output register holds after reset.
InitMain ==
    \E c \in MainConfigs, t \in 0 .. TickModulus - 1, l \in Levels :
        /\ Construct(c, t)
        /\ led = l

\* One iteration of the loop of main: encoder_button.poll(), the match on
\* its event, then counter.poll() with the dial report. last_event and
\* press_reports only record what happened.
MainLoop(level, dt, c) ==
    /\ Poll(level, dt)
    /\ LET d  == Dispatch(event')
           dr == DialReports(Debouncer_is_pressed(pin'), c)
       IN  /\ led_write' = d.led
           /\ led' = IF d.led = "none" THEN led ELSE d.led
           /\ reports' = d.reports \o dr
           /\ counter_poll' = c
           /\ last_event' = IF event' = "None" THEN last_event ELSE event'
           /\ press_reports' = IF event' = "Pressed" THEN 0
                               ELSE Min(press_reports + Len(d.reports), 2)
    /\ UNCHANGED debouncer

NextMain ==
    \E level \in Levels, dt \in 1 .. MaxDt, c \in CounterPolls :
        MainLoop(level, dt, c)

SpecMain == InitMain /\ [][NextMain]_vars

\* ------------------------------------------------------------------------
\* Vocabulary of the properties
\* ------------------------------------------------------------------------
\* The raw level at which the button is pressed, and the other one.
ActiveLevel == IF pin.active_mode = "Low" THEN "low" ELSE "high"
InactiveLevel == IF pin.active_mode = "Low" THEN "high" ELSE "low"

\* The integrator value of the released, resp. pressed, saturated debouncer.
ReleasedExtreme == IF pin.active_mode = "Low" THEN pin.max ELSE 0
PressedExtreme == IF pin.active_mode = "Low" THEN 0 ELSE pin.max

\* The samples since construction are all known.
HistKnown == polls <= HistLen /\ Len(hist) = polls

\* n copies of level x.
Rep(x, n) == [i \in 1 .. n |-> x]

\* Number of samples of level x in sequence s.
Count(s, x) == Cardinality({i \in 1 .. Len(s) : s[i] = x})

\* ------------------------------------------------------------------------
\* C1: after construction and after every poll, 0 <= integrator <= max,
\* for every polarity, every max and every sequence of raw samples (the
\* integrator stays a u8 throughout).
\* ------------------------------------------------------------------------
C1_IntegratorInRange ==
    /\ pin.integrator \in 0 .. U8Max
    /\ 0 <= pin.integrator
    /\ pin.integrator <= pin.max

\* A high sample on the debouncer with max = 255 that started at 255: the
\* increment is skipped at the top of the u8 range.
C1_Witness ==
    /\ pin.max = U8Max
    /\ pin.active_mode = "Low"
    /\ hist = <<"high">>
    /\ pin.integrator = U8Max

\* ------------------------------------------------------------------------
\* C2: Button::poll follows the 7-row transition table: the next state and
\* the returned event are the row selected by the current state, the freshly
\* debounced signal and the elapsed ticks; Pressed(t0) with the signal
\* active and elapsed = timeout_ticks stays Pressed(t0) without an event.
\* ------------------------------------------------------------------------
C2_Row(s, active, el, now) ==
    IF s.tag = "Released" /\ active THEN <<Pressed(now), "Pressed">>
    ELSE IF s.tag = "Released" THEN <<Released, "None">>
    ELSE IF s.tag = "Pressed" /\ ~active THEN <<Released, "ShortRelease">>
    ELSE IF s.tag = "Pressed" /\ el > long_press_timeout_ticks
         THEN <<LongPressed, "LongPress">>
    ELSE IF s.tag = "Pressed" THEN <<Pressed(s.press_start), "None">>
    ELSE IF ~active THEN <<Released, "LongRelease">>
    ELSE <<LongPressed, "None">>

C2_TransitionTable ==
    [][ <<button_state', event'>> =
            C2_Row(button_state, Debouncer_is_pressed(pin'),
                   (timer' - button_state.press_start) % TickModulus,
                   timer') ]_vars

\* A poll in Pressed(t0) with the signal active exactly timeout_ticks after
\* the press: no event, still Pressed(t0).
C2_Witness ==
    /\ pin.max >= 1
    /\ button_state.tag = "Pressed"
    /\ Debouncer_is_pressed(pin)
    /\ long_press_timeout_ticks >= 1
    /\ held = long_press_timeout_ticks
    /\ (timer - button_state.press_start) % TickModulus = long_press_timeout_ticks
    /\ event = "None"

\* ------------------------------------------------------------------------
\* C3: in Pressed(t0), a poll at which the debounced signal is inactive
\* returns ShortRelease and moves to Released also when elapsed exceeds
\* timeout_ticks at that poll; no poll at which the debounced signal is
\* inactive returns LongPress.
\* ------------------------------------------------------------------------
C3_ReleaseWinsTie ==
    [][ /\ ~Debouncer_is_pressed(pin') => event' # "LongPress"
        /\ ( /\ button_state.tag = "Pressed"
             /\ ~Debouncer_is_pressed(pin')
             /\ (timer' - button_state.press_start) % TickModulus
                    > long_press_timeout_ticks )
           => (event' = "ShortRelease" /\ button_state' = Released) ]_vars

\* A ShortRelease returned by a poll at which the timeout was exceeded too.
C3_Witness ==
    /\ pin.max >= 1
    /\ event = "ShortRelease"
    /\ held > long_press_timeout_ticks
    /\ held < TickModulus

\* ------------------------------------------------------------------------
\* C4: from the constructed state with max = N >= 1, N active samples in a
\* row give no event and is_pressed() = false for polls 1..N-1 and Pressed
\* with is_pressed() = true at poll N; N inactive samples right after, with
\* the long-press timeout not exceeded, give no event for polls 1..N-1 and
\* ShortRelease at poll N.
\* ------------------------------------------------------------------------
C4_ShortPress ==
    (pin.max >= 1 /\ HistKnown) =>
        LET n == Len(hist)
        IN  /\ (1 <= n /\ n <= pin.max /\ hist = Rep(ActiveLevel, n))
               => IF n < pin.max
                  THEN event = "None" /\ ~Debouncer_is_pressed(pin)
                  ELSE event = "Pressed" /\ Debouncer_is_pressed(pin)
            /\ ( /\ pin.max < n /\ n <= 2 * pin.max
                 /\ hist = Rep(ActiveLevel, pin.max)
                              \o Rep(InactiveLevel, n - pin.max)
                 /\ held <= long_press_timeout_ticks )
               => IF n < 2 * pin.max
                  THEN event = "None"
                  ELSE event = "ShortRelease" /\ ~Debouncer_is_pressed(pin)

\* Three active then three inactive samples on a debouncer with max = 3,
\* released before the timeout: the sixth poll returns ShortRelease.
C4_Witness ==
    /\ pin.max = 3
    /\ hist = Rep(ActiveLevel, 3) \o Rep(InactiveLevel, 3)
    /\ held <= long_press_timeout_ticks
    /\ event = "ShortRelease"

\* ------------------------------------------------------------------------
\* C5: from the constructed state with max = N >= 1, k < N active samples
\* followed by inactive samples only never change the debounced output:
\* is_pressed() stays false, no poll returns an event, and once as many
\* inactive samples as active ones have come the integrator is back at its
\* released extreme.
\* ------------------------------------------------------------------------
\* Number of active samples the recorded history starts with.
LeadingActive ==
    Cardinality({i \in 1 .. Len(hist) :
                    \A m \in 1 .. i : hist[m] = ActiveLevel})

C5_SubThresholdGlitch ==
    ( /\ pin.max >= 1
      /\ HistKnown
      /\ LeadingActive < pin.max
      /\ \A i \in 1 .. Len(hist) : i > LeadingActive => hist[i] = InactiveLevel )
    => /\ pin.output = (pin.active_mode = "Low")
       /\ ~Debouncer_is_pressed(pin)
       /\ event = "None"
       /\ button_state = Released
       /\ (Len(hist) >= 2 * LeadingActive => pin.integrator = ReleasedExtreme)

\* Two of the three active samples needed, then two inactive ones, on the
\* active-low debouncer: back at integrator = max, nothing reported.
C5_Witness ==
    /\ pin.max = 3
    /\ pin.active_mode = "Low"
    /\ hist = <<"low", "low", "high", "high">>
    /\ pin.integrator = 3
    /\ event = "None"

\* ------------------------------------------------------------------------
\* C6: in Pressed(t0) with the debounced signal active, the first poll with
\* elapsed > timeout_ticks returns LongPress and moves to LongPressed; in
\* LongPressed a poll with the signal active returns no event, and the poll
\* at which the signal is inactive returns LongRelease and moves to
\* Released; so LongPress is returned once per Pressed and LongRelease only
\* after it.
\* ------------------------------------------------------------------------
C6_LongPressOnce ==
    [][ LET active == Debouncer_is_pressed(pin')
            el     == (timer' - button_state.press_start) % TickModulus
        IN  /\ ( /\ button_state.tag = "Pressed" /\ active
                 /\ el > long_press_timeout_ticks )
               => (event' = "LongPress" /\ button_state' = LongPressed)
            /\ (button_state.tag = "LongPressed" /\ active)
               => (event' = "None" /\ button_state' = LongPressed)
            /\ (button_state.tag = "LongPressed" /\ ~active)
               => (event' = "LongRelease" /\ button_state' = Released)
            /\ event' = "LongPress" => long_presses = 0 /\ long_presses' = 1
            /\ event' = "LongRelease" => long_presses = 1
            /\ event' = "ShortRelease" => long_presses = 0 ]_vars

\* A LongRelease, after the one LongPress of this hold.
C6_Witness ==
    /\ pin.max >= 1
    /\ event = "LongRelease"
    /\ long_presses = 1
    /\ button_state = Released

\* ------------------------------------------------------------------------
\* C7: while Pressed(t0), d < 2^w ticks after the press the elapsed value
\* the poll compares is d, whatever t0 and also when the counter has wrapped
\* (now < t0); a poll with the signal active d < 2^w ticks after the press
\* returns LongPress exactly when d > timeout_ticks.
\* ------------------------------------------------------------------------
C7_Wraparound ==
    /\ [](( button_state.tag = "Pressed" /\ held < TickModulus )
            => elapsed(button_state.press_start, timer) = held)
    /\ [][ ( /\ button_state.tag = "Pressed"
             /\ Debouncer_is_pressed(pin')
             /\ held' < TickModulus )
           => ( /\ timer' = (button_state.press_start + held') % TickModulus
                /\ (event' = "LongPress") <=> (held' > long_press_timeout_ticks) )
       ]_vars

\* A LongPress returned after the counter wrapped during the hold: the
\* counter reads less than the ticks held, so the press began above it.
C7_Witness ==
    /\ pin.max >= 1
    /\ event = "LongPress"
    /\ held < TickModulus
    /\ held > long_press_timeout_ticks
    /\ timer < held

\* ------------------------------------------------------------------------
\* C8 (as stated, for max >= 1): once the integrator is at the extreme of
\* the raw level and the raw samples keep that level, a further poll leaves
\* output unchanged and returns no event, whatever the ButtonState and the
\* counter.
\* ------------------------------------------------------------------------
\* The latest sample left the integrator at the extreme of its level.
StableAt(level) ==
    /\ raw = level
    /\ pin.integrator = (IF level = "low" THEN 0 ELSE pin.max)

C8_Original ==
    [][ \A level \in Levels :
           (pin.max >= 1 /\ StableAt(level) /\ raw' = level)
           => (pin'.output = pin.output /\ event' = "None") ]_vars

\* ------------------------------------------------------------------------
\* C8 (amended): once a poll has left the integrator at the extreme of its
\* raw level and the raw samples keep that level, a further poll leaves
\* integrator and output unchanged and returns no event, except LongPress
\* from Pressed(t0) at the poll where elapsed exceeds timeout_ticks.
\* ------------------------------------------------------------------------
C8_StableInput ==
    [][ \A level \in Levels :
           (StableAt(level) /\ raw' = level)
           => /\ pin' = pin
              /\ \/ event' = "None"
                 \/ /\ event' = "LongPress"
                    /\ button_state.tag = "Pressed"
                    /\ button_state' = LongPressed
                    /\ elapsed(button_state.press_start, timer')
                          > long_press_timeout_ticks ]_vars

\* The hold goes on after the Pressed of the second high sample (max = 2):
\* output stays, and the third poll returns LongPress.
C8_Witness ==
    /\ pin.max = 2
    /\ pin.active_mode = "High"
    /\ hist = <<"high", "high", "high">>
    /\ pin.output = TRUE
    /\ event = "LongPress"

\* ------------------------------------------------------------------------
\* C9 (as stated): for max = N >= 1, from the constructed (saturated)
\* debouncer, any sequence of N - 1 samples of one level with one sample of
\* the other level inserted anywhere leaves output unchanged after every
\* poll of it.
\* ------------------------------------------------------------------------
\* s is the beginning of a sequence of n samples, n - 1 of one level and
\* one of the other: all of it, with exactly one sample of some level, or
\* less than all of it, with at most one sample of some level.
GlitchPrefix(s, n) ==
    /\ Len(s) <= n
    /\ \E l \in Levels :
          IF Len(s) = n THEN Count(s, l) = 1 ELSE Count(s, l) <= 1

C9_Original ==
    ( /\ pin.max >= 1
      /\ HistKnown /\ polls >= 1
      /\ GlitchPrefix(hist, pin.max) )
    => pin.output = (pin.active_mode = "Low")

\* ------------------------------------------------------------------------
\* C9 (amended): the same for max = N >= 2.
\* ------------------------------------------------------------------------
C9_GlitchRejection ==
    ( /\ pin.max >= 2
      /\ HistKnown /\ polls >= 1
      /\ GlitchPrefix(hist, pin.max) )
    => pin.output = (pin.active_mode = "Low")

\* Two high samples and a low one on the debouncer with max = 3 that
\* started at 0: the integrator moved, output did not.
C9_Witness ==
    /\ pin.max = 3
    /\ pin.active_mode = "High"
    /\ hist = <<"high", "high", "low">>
    /\ pin.integrator = 1
    /\ pin.output = FALSE

\* ------------------------------------------------------------------------
\* C10: no polling state has a zero threshold: Debouncer::new yields
\* max >= 1 and Button::new yields long_press_timeout_ticks >= 1 (or the
\* construction is rejected, so that nothing is polled).
\* ------------------------------------------------------------------------
C10_NoZeroThreshold ==
    polls >= 1 => (pin.max >= 1 /\ long_press_timeout_ticks >= 1)

Constructed ==
    [pin EXCEPT !.integrator = ReleasedExtreme,
                !.output = (pin.active_mode = "Low")]

RECURSIVE DebouncerAfter(_)
DebouncerAfter(k) ==
    IF k = 0 THEN Constructed
    ELSE Debouncer_poll(DebouncerAfter(k - 1), hist[k] = "low")

\* The latest poll is recorded and flipped output.
Flipped ==
    /\ HistKnown /\ polls >= 1
    /\ pin.output # DebouncerAfter(polls - 1).output

\* The poll before the latest at which output flipped, or 0.
PreviousFlip ==
    LET F == {j \in 1 .. polls - 1 :
                 DebouncerAfter(j).output # DebouncerAfter(j - 1).output}
    IN  IF F = {} THEN 0 ELSE CHOOSE j \in F : \A m \in F : m <= j

C13_Original ==
    Flipped =>
        /\ polls >= pin.max
        /\ \A i \in 1 .. polls : i > polls - pin.max => hist[i] = hist[polls]

\* ------------------------------------------------------------------------
\* C13 (amended): whenever a poll flips output, at least max of the samples
\* since output last flipped (or since construction), that poll's included,
\* have the raw level that drives the integrator to the new output (high
\* for true, low for false); they need not be consecutive.
\* ------------------------------------------------------------------------
C13_FlipNeedsMaxSamples ==
    Flipped =>
        LET lvl == IF pin.output THEN "high" ELSE "low"
        IN  Cardinality({i \in PreviousFlip + 1 .. polls : hist[i] = lvl})
                >= pin.max

\* Output rises at the fifth sample of high, high, low, high, high with
\* max = 3: four high samples, the last three samples not all high.
C13_Witness ==
    /\ pin.max = 3
    /\ pin.active_mode = "High"
    /\ hist = <<"high", "high", "low", "high", "high">>
    /\ Flipped
    /\ pin.output = TRUE

\* ------------------------------------------------------------------------
\* C14: in every debouncer state, the constructed one included,
\* integrator = 0 implies output false and integrator = max implies output
\* true; a poll that leaves 0 < integrator < max leaves output as it was.
\* ------------------------------------------------------------------------
C14_Extremes ==
    /\ pin.integrator = 0 => pin.output = FALSE
    /\ pin.integrator = pin.max => pin.output = TRUE

C14_OutputAtExtremes ==
    /\ []C14_Extremes
    /\ [][ (0 < pin'.integrator /\ pin'.integrator < pin'.max)
              => pin'.output = pin.output ]_vars

\* The same for the debouncers constructed with max >= 1.
C14_ForPositiveMax ==
    /\ [](pin.max >= 1 => C14_Extremes)
    /\ [][ (0 < pin'.integrator /\ pin'.integrator < pin'.max)
              => pin'.output = pin.output ]_vars

\* ------------------------------------------------------------------------
\* C15: no state is stuck: max polls (at least one) with the raw input
\* inactive end in Released, and max polls with it active end in a pressed
\* state (Pressed, or LongPressed when the timeout ran out meanwhile).
\* ------------------------------------------------------------------------
\* The latest k recorded samples are all at `level`.
SuffixAll(level, k) ==
    /\ HistKnown /\ k <= polls
    /\ \A i \in 1 .. polls : i > polls - k => hist[i] = level

C15_Run == IF pin.max = 0 THEN 1 ELSE pin.max

C15_NoStuckState ==
    /\ SuffixAll(InactiveLevel, C15_Run) => button_state = Released
    /\ SuffixAll(ActiveLevel, C15_Run) => button_state.tag # "Released"

\* The same for the debouncers constructed with max >= 1.
C15_ForPositiveMax == pin.max >= 1 => C15_NoStuckState

\* ------------------------------------------------------------------------
\* C17: at construction and after every Button::poll, the button state is
\* Released exactly when is_pressed() is false.
\* ------------------------------------------------------------------------
C17_StateMatchesSignal ==
    (button_state = Released) <=> ~Debouncer_is_pressed(pin)

\* A release after a long press: back in Released with the signal inactive.
C17_Witness ==
    /\ pin.max >= 1
    /\ event = "LongRelease"
    /\ button_state = Released
    /\ ~Debouncer_is_pressed(pin)

\* ------------------------------------------------------------------------
\* C19: a freshly constructed button reports is_pressed() = false for both
\* polarities, and as long as every raw sample since construction was at
\* the inactive level, no poll returns an event and is_pressed() stays
\* false.
\* ------------------------------------------------------------------------
C19_NoSpuriousPress ==
    (HistKnown /\ \A i \in 1 .. polls : hist[i] = InactiveLevel)
    => (event = "None" /\ ~Debouncer_is_pressed(pin))

\* The same for the debouncers constructed with max >= 1.
C19_ForPositiveMax == pin.max >= 1 => C19_NoSpuriousPress

\* ------------------------------------------------------------------------
\* The loop of main (SpecMain)
\* ------------------------------------------------------------------------
\* The reports of this iteration that came from the match on the event.
ButtonReports == SelectSeq(reports, LAMBDA r : r.tag # "DialValue")

\* The dial reports of this iteration.
DialValueReports == SelectSeq(reports, LAMBDA r : r.tag = "DialValue")

\* C11: in every iteration a DialValue report is sent only if counter.poll()
\* returned a delta (the one reported) and is_pressed() is false after that
\* iteration's button poll; no DialValue report is sent in an iteration in
\* which the debounced button reports pressed; and the check changes nothing
\* of the button: pin and button_state are what Button::poll left.
C11_DialSuppressed ==
    /\ [](/\ DialValueReports # <<>> =>
                /\ counter_poll # <<>>
                /\ DialValueReports = <<Report_DialValue(counter_poll[1])>>
                /\ ~Debouncer_is_pressed(pin)
          /\ Debouncer_is_pressed(pin) => DialValueReports = <<>>)
    /\ [][LET p == Debouncer_poll(pin, raw' = "low")
          IN  /\ pin' = p
              /\ button_state' =
                     Button_poll(button_state, long_press_timeout_ticks,
                                 Debouncer_is_pressed(p), timer').button_state]_vars

\* C11's case: the counter returned a delta while the button is held, and
\* nothing was reported.
C11_Witness ==
    /\ counter_poll # <<>>
    /\ Debouncer_is_pressed(pin)
    /\ button_state.tag = "Pressed"
    /\ event = "None"
    /\ reports = <<>>

\* C16, as stated: each of Pressed, ShortRelease, LongPress and LongRelease
\* is dispatched in its iteration to a visible effect, taken here as a write
\* to the indicator or a report to the host, and an iteration without an
\* event neither changes the indicator nor sends a button report.
C16_Original ==
    [][/\ event' # "None" => (led_write' # "none" \/ ButtonReports' # <<>>)
       /\ event' = "None" =>
              (led_write' = "none" /\ led' = led /\ ButtonReports' = <<>>)]_vars

\* C16, amended: Pressed drives the indicator low and reports nothing;
\* ShortRelease reports Press and LongPress reports LongPress, each driving
\* the indicator high; LongRelease, like an iteration without an event,
\* writes nothing to the indicator and sends no button report.
C16_Dispatch ==
    [][/\ event' = "Pressed" =>
              (led_write' = "low" /\ led' = "low" /\ ButtonReports' = <<>>)
       /\ event' = "ShortRelease" =>
              (led_write' = "high" /\ led' = "high"
               /\ ButtonReports' = <<Report_Press>>)
       /\ event' = "LongPress" =>
              (led_write' = "high" /\ led' = "high"
               /\ ButtonReports' = <<Report_LongPress>>)
       /\ event' \in {"LongRelease", "None"} =>
              (led_write' = "none" /\ led' = led /\ ButtonReports' = <<>>)]_vars

\* C16's case: the iteration of a LongRelease, which left the indicator at
\* the level LongPress gave it and reported nothing.
C16_Witness ==
    /\ event = "LongRelease"
    /\ led_write = "none"
    /\ led = "high"
    /\ ButtonReports = <<>>

\* C18: the returned events form a prefix of a word of
\* (Pressed (ShortRelease | LongPress LongRelease))*: Pressed comes first or
\* after a release, ShortRelease and LongPress come only directly after
\* Pressed, LongRelease only directly after LongPress; and the loop sends at
\* most one button report, Press or LongPress, per Pressed event.
C18_EventGrammar ==
    /\ [](press_reports <= 1)
    /\ [][/\ event' = "Pressed" =>
                 last_event \in {"None", "ShortRelease", "LongRelease"}
          /\ event' \in {"ShortRelease", "LongPress"} => last_event = "Pressed"
          /\ event' = "LongRelease" => last_event = "LongPress"
          /\ Len(ButtonReports') <= 1]_vars

\* C18's case: a long press ran its whole course, with its one report.
C18_Witness ==
    /\ event = "LongRelease"
    /\ last_event = "LongRelease"
    /\ press_reports = 1

\* ------------------------------------------------------------------------
\* The two debouncers (SpecEquiv)
\* ------------------------------------------------------------------------
\* C20: fed the same polarity, the same max and the same raw samples,
\* Debouncer::update of debouncer.rs and Debouncer::poll of button.rs hold
\* the same integrator and output after every step, and their is_pressed()
\* agree.
C20_Equivalent ==
    /\ debouncer.active_mode = pin.active_mode
    /\ debouncer.max = pin.max
    /\ debouncer.integrator = pin.integrator
    /\ debouncer.output = pin.output
    /\ DebouncerRs_is_pressed(debouncer) = Debouncer_is_pressed(pin)

\* C20's case: samples of both levels went in, the last one a high sample
\* with the integrator already at max, where update clamps, and before it a
\* low sample at zero, where update's guard and saturating_sub both hold.
C20_Witness ==
    /\ HistKnown
    /\ pin.max = 2
    /\ hist = <<"low", "low", "low", "high", "high", "high">>
    /\ debouncer.integrator = debouncer.max
    /\ debouncer.output = TRUE

====
